---- MODULE Spec2Model ----
(***************************************************************************)
(* Model of the longrun orchestrator (orchestrate.py) and its status       *)
(* reporter (status.py).                                                   *)
(*                                                                         *)
(* One logical invocation of orchestrate is modelled: the process "fg"     *)
(* started by the caller and, for --detach, the background worker "bg" it  *)
(* spawns.  A status reader runs concurrently.  Either orchestrate process *)
(* may be killed at any step and the wall clock may tick at any step.      *)
(***************************************************************************)
EXTENDS Integers, Sequences, FiniteSets, TLC

\* ------------------------------------------------------------------ bounds
MaxClock == 1        \* the wall clock (whole seconds) runs over 0..MaxClock
MaxThen == 2         \* at most MaxThen --then follow-up commands
MaxRc == 2           \* a command exits with a code in 0..MaxRc

VARIABLES
    clock,      \* wall clock, in seconds
    pc,         \* pc[p]: position of orchestrate process p in main()
    args,       \* args[p]: parsed command line of p
    env,        \* env[p]: value of LONGRUN_RUN_DIR in p's environment
    run_dir,    \* run_dir[p]: main()'s local run_dir
    state,      \* state[p]: main()'s local RunState
    loop,       \* loop[p]: main()'s locals then_rcs and i
    wj,         \* wj[p]: the write_json call p is inside
    exit,       \* exit[p]: exit code and printed line of p
    fs,         \* runs root: directory name -> (file name -> text)
    commits,    \* history of the renames onto a state.json
    cmdlog,     \* the shell commands started by run_shell, in order
    rd          \* the status reader

vars == <<clock, pc, args, env, run_dir, state, loop, wj, exit, fs, commits, cmdlog, rd>>

Procs == {"fg", "bg"}
Labels == {"job"}
None == <<>>
Some(x) == <<x>>

\* The command texts: one main command and the declared follow-ups.
MainCmd == <<"main">>
ThenCmd(k) == <<"then", k>>
ThenCmds(n) == [k \in 1..n |-> ThenCmd(k)]

\* ------------------------------------------------------------- State Store
\* json.dumps of the values a RunState holds.
JNull == <<"null">>
JInt(n) == <<"int", n>>
JStr(s) == <<"str", s>>
JList(l) == <<"list", l>>
JOptInt(o) == IF o = None THEN JNull ELSE JInt(o[1])
JOptList(o) == IF o = None THEN JNull ELSE JList(o[1])
JOptStr(o) == IF o = None THEN JNull ELSE JStr(o[1])
UnOpt(j) == IF j = JNull THEN None ELSE Some(j[2])

\* RunState(...) with the dataclass defaults.
RunState(rid, label, ws, created, cmd, thens) ==
    [run_id |-> rid, label |-> label, workspace |-> ws, created_at |-> created,
     status |-> "created", main_cmd |-> cmd, then_cmds |-> thens,
     main_pid |-> None, main_rc |-> None, then_rcs |-> None, error |-> None]

\* json.dumps(asdict(state)): the text of a state.json, one entry per field.
dumps(obj) ==
    << <<"{">>,
       <<"run_id", JStr(obj.run_id)>>,
       <<"label", JStr(obj.label)>>,
       <<"workspace", JStr(obj.workspace)>>,
       <<"created_at", JStr(obj.created_at)>>,
       <<"status", JStr(obj.status)>>,
       <<"main_cmd", JStr(obj.main_cmd)>>,
       <<"then_cmds", JList(obj.then_cmds)>>,
       <<"main_pid", JOptInt(obj.main_pid)>>,
       <<"main_rc", JOptInt(obj.main_rc)>>,
       <<"then_rcs", JOptList(obj.then_rcs)>>,
       <<"error", JOptStr(obj.error)>>,
       <<"}">> >>

\* json.dumps({"orchestrator_pid": pid})
dumpsPid(pid) == << <<"{">>, <<"orchestrator_pid", JStr(pid)>>, <<"}">> >>

\* json.loads succeeds only on a complete document.
Parses(text) == Len(text) >= 2 /\ text[1] = <<"{">> /\ text[Len(text)] = <<"}">>

loadsNoThen(text) ==
    [run_id |-> text[2][2][2], label |-> text[3][2][2], workspace |-> text[4][2][2],
     created_at |-> text[5][2][2], status |-> text[6][2][2], main_cmd |-> text[7][2][2],
     then_cmds |-> <<>>, main_pid |-> UnOpt(text[9][2]),
     main_rc |-> UnOpt(text[10][2]), then_rcs |-> UnOpt(text[11][2]),
     error |-> UnOpt(text[12][2])]

\* json.loads + RunState(**dict) of a complete state.json text.
loads(text) ==
    [run_id |-> text[2][2][2], label |-> text[3][2][2], workspace |-> text[4][2][2],
     created_at |-> text[5][2][2], status |-> text[6][2][2], main_cmd |-> text[7][2][2],
     then_cmds |-> text[8][2][2], main_pid |-> UnOpt(text[9][2]),
     main_rc |-> UnOpt(text[10][2]), then_rcs |-> UnOpt(text[11][2]),
     error |-> UnOpt(text[12][2])]

\* File names, as sequences of path components and suffixes.
StateJson == <<"state.json">>
DetachedIsState == <<"state.json">>
DetachedJson == <<"detached.json">>

\* path.with_suffix(path.suffix + ".tmp")
TmpSame(name) == name
TmpOf(name) == name \o <<".tmp">>

IsFile(d, name) == d \in DOMAIN fs /\ name \in DOMAIN fs[d]

\* The file system after writing `text` to file `name` of directory d.
PutFile(f, d, name, text) == [f EXCEPT ![d] = (name :> text) @@ f[d]]

\* The file system after renaming file `from` of directory d onto `to`.
Rename(f, d, from, to) ==
    IF from = to THEN f
    ELSE [f EXCEPT ![d] = [n \in (DOMAIN f[d] \cup {to}) \ {from} |->
                              IF n = to THEN f[d][from] ELSE f[d][n]]]

\* The point up to which a write that is under way has reached the disk.
PartOf(text) == SubSeq(text, 1, Len(text) \div 2)

NoWrite == [dir |-> None, name |-> None, text |-> None, obj |-> None, ret |-> "none"]

\* write_json(path, obj) entered: tmp is opened for writing, hence truncated.
BeginWrite(p, d, name, text, obj, ret) ==
    /\ fs' = PutFile(fs, d, TmpOf(name), <<>>)
    /\ wj' = [wj EXCEPT ![p] = [dir |-> d, name |-> name, text |-> text,
                                obj |-> obj, ret |-> ret]]
    /\ pc' = [pc EXCEPT ![p] = "wj_write"]

\* tmp.write_text(...): the text reaches the file in two parts.
WJ_WritePart(p) ==
    /\ pc[p] = "wj_write"
    /\ fs' = PutFile(fs, wj[p].dir, TmpOf(wj[p].name), PartOf(wj[p].text))
    /\ pc' = [pc EXCEPT ![p] = "wj_flush"]
    /\ UNCHANGED <<clock, args, env, run_dir, state, loop, wj, exit, commits, cmdlog, rd>>

WJ_WriteRestLazy(p) ==
    /\ pc[p] = "wj_flush"
    /\ pc' = [pc EXCEPT ![p] = "wj_replace"]
    /\ UNCHANGED <<clock, args, env, run_dir, state, loop, wj, exit, fs, commits, cmdlog, rd>>

WJ_WriteRest(p) ==
    /\ pc[p] = "wj_flush"
    /\ fs' = PutFile(fs, wj[p].dir, TmpOf(wj[p].name), wj[p].text)
    /\ pc' = [pc EXCEPT ![p] = "wj_replace"]
    /\ UNCHANGED <<clock, args, env, run_dir, state, loop, wj, exit, commits, cmdlog, rd>>

\* tmp.replace(path): the rename, after which write_json returns.
WJ_Replace(p) ==
    /\ pc[p] = "wj_replace"
    /\ fs' = Rename(fs, wj[p].dir, TmpOf(wj[p].name), wj[p].name)
    /\ commits' = IF wj[p].name = StateJson
                  THEN Append(commits, [dir |-> wj[p].dir, by |-> p, obj |-> wj[p].obj])
                  ELSE commits
    /\ pc' = [pc EXCEPT ![p] = wj[p].ret]
    /\ wj' = [wj EXCEPT ![p] = NoWrite]
    /\ UNCHANGED <<clock, args, env, run_dir, state, loop, exit, cmdlog, rd>>

\* ------------------------------------------------- Run Directory Allocator
\* now_tag(): the clock, to the second.
now_tag == clock

\* The run_id f"{label}_{now_tag()}" names the run directory under the runs root.
RunId(label, tag) == <<label, tag>>

\* ------------------------------------------------------------ Orchestrator
Workspace == "ws"

\* f"main command failed with rc={main_rc}"
MainError(rc) == <<"main command failed with rc=", rc>>

\* f"follow-up failed at step {i} rc={rc}"
ThenError(i, rc) == <<"follow-up failed at step ", i, " rc=", rc>>

\* The assignments to `state` of main(): line 185, lines 190-194, lines
\* 204-206 and lines 210-211.
RunningKeepsStatus(s) == s
Running(s) == [s EXCEPT !.status = "running"]
FailMainNoError(s, rc) == [s EXCEPT !.main_rc = Some(rc), !.status = "failed"]
FailMain(s, rc) ==
    [s EXCEPT !.main_rc = Some(rc), !.status = "failed", !.error = Some(MainError(rc))]
FailThenZeroBased(s, rcs, i, rc) ==
    [s EXCEPT !.status = "failed", !.then_rcs = Some(rcs),
              !.error = Some(ThenError(i - 1, rc))]
FailThen(s, rcs, i, rc) ==
    [s EXCEPT !.status = "failed", !.then_rcs = Some(rcs), !.error = Some(ThenError(i, rc))]
CompletedNoRcs(s, rcs) == [s EXCEPT !.status = "completed"]
Completed(s, rcs) == [s EXCEPT !.then_rcs = Some(rcs), !.status = "completed"]

\* `if env_run_dir:` (lines 122 and 181): this process is the detached worker.
IsWorkerNever(e) == FALSE
IsWorker(e) == e # None

AllocateExistOk(p) ==
    /\ pc[p] = "main"
    /\ LET d == IF IsWorker(env[p]) THEN env[p] ELSE RunId(args[p].label, now_tag) IN
       /\ run_dir' = [run_dir EXCEPT ![p] = d]
       /\ fs' = IF d \in DOMAIN fs THEN fs ELSE (d :> <<>>) @@ fs
       /\ pc' = [pc EXCEPT ![p] = "L133"]
       /\ exit' = exit
    /\ UNCHANGED <<clock, args, env, state, loop, wj, commits, cmdlog, rd>>

\* main(), lines 118-126: the worker reuses the directory named by
\* LONGRUN_RUN_DIR (mkdir exist_ok=True); otherwise make_run_dir allocates
\* <label>_<now_tag> and raises FileExistsError when it exists.
Allocate(p) ==
    /\ pc[p] = "main"
    /\ IF IsWorker(env[p])
       THEN /\ run_dir' = [run_dir EXCEPT ![p] = env[p]]
            /\ fs' = IF env[p] \in DOMAIN fs THEN fs ELSE (env[p] :> <<>>) @@ fs
            /\ pc' = [pc EXCEPT ![p] = "L133"]
            /\ exit' = exit
       ELSE LET d == RunId(args[p].label, now_tag) IN
            IF d \in DOMAIN fs
            THEN /\ pc' = [pc EXCEPT ![p] = "crashed"]
                 /\ exit' = [exit EXCEPT ![p].code = Some(1)]
                 /\ UNCHANGED <<run_dir, fs>>
            ELSE /\ run_dir' = [run_dir EXCEPT ![p] = d]
                 /\ fs' = (d :> <<>>) @@ fs
                 /\ pc' = [pc EXCEPT ![p] = "L133"]
                 /\ exit' = exit
    /\ UNCHANGED <<clock, args, env, state, loop, wj, commits, cmdlog, rd>>

\* main(), lines 128-142: the RunState is built afresh, with status created
\* and created_at the current second, and written to state.json.
Create(p) ==
    /\ pc[p] = "L133"
    /\ LET s == RunState(run_dir[p], args[p].label, Workspace, clock,
                         args[p].cmd, args[p].then) IN
       /\ state' = [state EXCEPT ![p] = s]
       /\ BeginWrite(p, run_dir[p], StateJson, dumps(s), s, "L144")
    /\ UNCHANGED <<clock, args, env, run_dir, loop, exit, commits, cmdlog, rd>>

\* The process spawned by p.
Child(p) == "bg"

\* main(), lines 144-173: --detach spawns this script again, without --detach
\* and with LONGRUN_RUN_DIR naming the run directory.
Spawn(p) ==
    /\ pc[p] = "L144"
    /\ args[p].detach
    /\ pc' = [pc EXCEPT ![p] = "L176", ![Child(p)] = "main"]
    /\ args' = [args EXCEPT ![Child(p)] = [args[p] EXCEPT !.detach = FALSE]]
    /\ env' = [env EXCEPT ![Child(p)] = run_dir[p]]
    /\ UNCHANGED <<clock, run_dir, state, loop, wj, exit, fs, commits, cmdlog, rd>>

\* main(), line 176: the worker's pid is recorded in detached.json.
WriteDetached(p) ==
    /\ pc[p] = "L176"
    /\ BeginWrite(p, run_dir[p], DetachedJson, dumpsPid(Child(p)), Child(p), "L177")
    /\ UNCHANGED <<clock, args, env, run_dir, state, loop, exit, commits, cmdlog, rd>>

PrintRunIdNow(p) ==
    /\ pc[p] = "L177"
    /\ exit' = [exit EXCEPT ![p] = [code |-> Some(0),
                                    out |-> Some(RunId(args[p].label, now_tag))]]
    /\ pc' = [pc EXCEPT ![p] = "done"]
    /\ UNCHANGED <<clock, args, env, run_dir, state, loop, wj, fs, commits, cmdlog, rd>>

\* main(), lines 177-178: print(state.run_id); return 0.
PrintRunId(p) ==
    /\ pc[p] = "L177"
    /\ exit' = [exit EXCEPT ![p] = [code |-> Some(0), out |-> Some(state[p].run_id)]]
    /\ pc' = [pc EXCEPT ![p] = "done"]
    /\ UNCHANGED <<clock, args, env, run_dir, state, loop, wj, fs, commits, cmdlog, rd>>

\* main(), lines 181-186: the worker reloads state.json; status running is
\* written.  A state.json that is absent or does not parse raises.
SetRunning(p) ==
    /\ pc[p] = "L144"
    /\ ~args[p].detach
    /\ IF IsWorker(env[p]) /\ ~(IsFile(run_dir[p], StateJson)
                                /\ Parses(fs[run_dir[p]][StateJson]))
       THEN /\ pc' = [pc EXCEPT ![p] = "crashed"]
            /\ exit' = [exit EXCEPT ![p].code = Some(1)]
            /\ UNCHANGED <<state, wj, fs>>
       ELSE LET loaded == IF IsWorker(env[p]) THEN loads(fs[run_dir[p]][StateJson])
                          ELSE state[p]
                s == Running(loaded) IN
            /\ state' = [state EXCEPT ![p] = s]
            /\ BeginWrite(p, run_dir[p], StateJson, dumps(s), s, "L189")
            /\ exit' = exit
    /\ UNCHANGED <<clock, args, env, run_dir, loop, commits, cmdlog, rd>>

\* run_shell(cmd, ...), lines 98-105: the command is started under bash -lc.
Started(p, cmd) == Append(cmdlog, [by |-> p, cmd |-> cmd, rc |-> None])

\* run_shell, line 106: p.wait() returns the exit code of the command p started.
Finished(p, rc) ==
    LET k == CHOOSE j \in 1..Len(cmdlog) : cmdlog[j].by = p /\ cmdlog[j].rc = None
    IN [cmdlog EXCEPT ![k].rc = Some(rc)]

\* Where main() goes once the failed record is written: `return 1` (lines 196, 208).
MainFailFallThrough == "L200"
MainFailRet == "ret1"
ThenFailFallThrough == "L200"
ThenFailRet == "ret1"

\* main(), line 189: the main command is started.
RunMain(p) ==
    /\ pc[p] = "L189"
    /\ cmdlog' = Started(p, state[p].main_cmd)
    /\ pc' = [pc EXCEPT ![p] = "main_wait"]
    /\ UNCHANGED <<clock, args, env, run_dir, state, loop, wj, exit, fs, commits, rd>>

\* main(), lines 189-199: the main command exits with rc; a nonzero rc is
\* recorded as failed and written, otherwise the follow-up loop is entered.
MainDone(p, rc) ==
    /\ pc[p] = "main_wait"
    /\ cmdlog' = Finished(p, rc)
    /\ loop' = [loop EXCEPT ![p] = [then_rcs |-> <<>>, i |-> 1]]
    /\ IF rc # 0
       THEN LET s == FailMain(state[p], rc) IN
            /\ state' = [state EXCEPT ![p] = s]
            /\ BeginWrite(p, run_dir[p], StateJson, dumps(s), s, MainFailRet)
       ELSE /\ state' = [state EXCEPT ![p].main_rc = Some(rc)]
            /\ pc' = [pc EXCEPT ![p] = "L200"]
            /\ UNCHANGED <<wj, fs>>
    /\ UNCHANGED <<clock, args, env, run_dir, exit, commits, rd>>

\* main(), lines 200-201: the next follow-up, in declared order, is started.
RunThen(p) ==
    /\ pc[p] = "L200"
    /\ loop[p].i <= Len(state[p].then_cmds)
    /\ cmdlog' = Started(p, state[p].then_cmds[loop[p].i])
    /\ pc' = [pc EXCEPT ![p] = "then_wait"]
    /\ UNCHANGED <<clock, args, env, run_dir, state, loop, wj, exit, fs, commits, rd>>

ThenDoneOverwrite(p, rc) ==
    /\ pc[p] = "then_wait"
    /\ cmdlog' = Finished(p, rc)
    /\ LET rcs == <<rc>> IN
       IF rc # 0
       THEN LET s == FailThen(state[p], rcs, loop[p].i, rc) IN
            /\ state' = [state EXCEPT ![p] = s]
            /\ BeginWrite(p, run_dir[p], StateJson, dumps(s), s, ThenFailRet)
       ELSE /\ pc' = [pc EXCEPT ![p] = "L200"]
            /\ UNCHANGED <<state, wj, fs>>
    /\ loop' = [loop EXCEPT ![p] = [then_rcs |-> <<rc>>, i |-> loop[p].i + 1]]
    /\ UNCHANGED <<clock, args, env, run_dir, exit, commits, rd>>

\* main(), lines 201-208: the follow-up exits with rc, which is appended to
\* the local then_rcs; a nonzero rc is recorded as failed and written.
ThenDone(p, rc) ==
    /\ pc[p] = "then_wait"
    /\ cmdlog' = Finished(p, rc)
    /\ LET rcs == Append(loop[p].then_rcs, rc) IN
       IF rc # 0
       THEN LET s == FailThen(state[p], rcs, loop[p].i, rc) IN
            /\ state' = [state EXCEPT ![p] = s]
            /\ BeginWrite(p, run_dir[p], StateJson, dumps(s), s, ThenFailRet)
       ELSE /\ pc' = [pc EXCEPT ![p] = "L200"]
            /\ UNCHANGED <<state, wj, fs>>
    /\ loop' = [loop EXCEPT ![p] = [then_rcs |-> Append(loop[p].then_rcs, rc),
                                   i |-> loop[p].i + 1]]
    /\ UNCHANGED <<clock, args, env, run_dir, exit, commits, rd>>

\* main(), lines 210-212: the loop is exhausted; completed is written.
Complete(p) ==
    /\ pc[p] = "L200"
    /\ loop[p].i > Len(state[p].then_cmds)
    /\ LET s == Completed(state[p], loop[p].then_rcs) IN
       /\ state' = [state EXCEPT ![p] = s]
       /\ BeginWrite(p, run_dir[p], StateJson, dumps(s), s, "ret0")
    /\ UNCHANGED <<clock, args, env, run_dir, loop, exit, commits, cmdlog, rd>>

ReturnZero(p) ==
    /\ pc[p] \in {"ret0", "ret1"}
    /\ exit' = [exit EXCEPT ![p].code = Some(0)]
    /\ pc' = [pc EXCEPT ![p] = "done"]
    /\ UNCHANGED <<clock, args, env, run_dir, state, loop, wj, fs, commits, cmdlog, rd>>

\* main(), lines 196, 208, 213: return 1 / return 0.
Return(p) ==
    /\ pc[p] \in {"ret0", "ret1"}
    /\ exit' = [exit EXCEPT ![p].code = Some(IF pc[p] = "ret0" THEN 0 ELSE 1)]
    /\ pc' = [pc EXCEPT ![p] = "done"]
    /\ UNCHANGED <<clock, args, env, run_dir, state, loop, wj, fs, commits, cmdlog, rd>>

\* ------------------------------------------------------------- environment
Alive(p) == pc[p] \notin {"idle", "done", "crashed", "killed"}

\* The process is terminated from outside (SIGKILL): it takes no further step.
Kill(p) ==
    /\ Alive(p)
    /\ pc' = [pc EXCEPT ![p] = "killed"]
    /\ UNCHANGED <<clock, args, env, run_dir, state, loop, wj, exit, fs, commits, cmdlog, rd>>

\* A second passes.
Tick ==
    /\ clock < MaxClock
    /\ clock' = clock + 1
    /\ UNCHANGED <<pc, args, env, run_dir, state, loop, wj, exit, fs, commits, cmdlog, rd>>

\* --------------------------------------------------------- Status Reporter
\* Lexical order of the run directory names <label>_<timestamp>.
LabelOrder == <<"job", "zeta">>
LabelRank(l) == CHOOSE k \in 1..Len(LabelOrder) : LabelOrder[k] = l
NameLeq(a, b) ==
    \/ LabelRank(a[1]) < LabelRank(b[1])
    \/ a[1] = b[1] /\ a[2] <= b[2]

\* latest_run_dir(ws): None without run directories, else the greatest name.
latest_run_dir ==
    IF DOMAIN fs = {} THEN None
    ELSE CHOOSE d \in DOMAIN fs : \A e \in DOMAIN fs : NameLeq(e, d)

RunIds == {RunId(l, t) : l \in Labels, t \in 0..MaxClock}

RdIdle == [pc |-> "idle", run_dir |-> None, code |-> None, out |-> None]

\* status.py main(), lines 53-65: the run directory is resolved, from
\* --latest first, else from --run-id; without either, ap.error exits 2.
R_Resolve(latest, run_id) ==
    /\ rd.pc = "idle"
    /\ LET d == IF latest THEN latest_run_dir ELSE run_id IN
       rd' = IF ~latest /\ run_id = None
             THEN [rd EXCEPT !.pc = "done", !.code = Some(2), !.out = Some(<<"usage">>)]
             ELSE IF d = None \/ d \notin DOMAIN fs
             THEN [rd EXCEPT !.pc = "done", !.code = Some(1),
                             !.out = Some(<<"(no runs found)">>)]
             ELSE [rd EXCEPT !.pc = "L67", !.run_dir = d]
    /\ UNCHANGED <<clock, pc, args, env, run_dir, state, loop, wj, exit, fs, commits, cmdlog>>

R_IsFileZero ==
    /\ rd.pc = "L67"
    /\ rd' = IF IsFile(rd.run_dir, StateJson)
             THEN [rd EXCEPT !.pc = "L72"]
             ELSE [rd EXCEPT !.pc = "done", !.code = Some(0),
                             !.out = Some(<<"(missing state.json in ", rd.run_dir, ")">>)]
    /\ UNCHANGED <<clock, pc, args, env, run_dir, state, loop, wj, exit, fs, commits, cmdlog>>

\* status.py main(), lines 67-70: state.json must be a file.
R_IsFile ==
    /\ rd.pc = "L67"
    /\ rd' = IF IsFile(rd.run_dir, StateJson)
             THEN [rd EXCEPT !.pc = "L72"]
             ELSE [rd EXCEPT !.pc = "done", !.code = Some(1),
                             !.out = Some(<<"(missing state.json in ", rd.run_dir, ")">>)]
    /\ UNCHANGED <<clock, pc, args, env, run_dir, state, loop, wj, exit, fs, commits, cmdlog>>

\* The lines printed without --json (lines 77-89).
Summary(d, st) ==
    [run_id |-> d, label |-> st.label, status |-> st.status,
     main_rc |-> st.main_rc, error |-> st.error]

\* status.py main(), lines 72-90: state.json is read and parsed (json.loads
\* raises on a text that is no complete document) and printed.
R_Read(json) ==
    /\ rd.pc = "L72"
    /\ LET text == fs[rd.run_dir][StateJson] IN
       rd' = IF ~Parses(text)
             THEN [rd EXCEPT !.pc = "crashed", !.code = Some(1), !.out = Some(text)]
             ELSE [rd EXCEPT !.pc = "done", !.code = Some(0),
                             !.out = Some(IF json THEN loads(text)
                                          ELSE Summary(rd.run_dir, loads(text)))]
    /\ UNCHANGED <<clock, pc, args, env, run_dir, state, loop, wj, exit, fs, commits, cmdlog>>

\* ----------------------------------------------------------- specification
NoState == RunState(None, "", "", 0, None, <<>>)

\* The caller has started "fg" with a label, a main command, up to MaxThen
\* follow-ups and possibly --detach, no LONGRUN_RUN_DIR in its environment and
\* an empty runs root; "bg" is not running (its args are set when spawned).
Init ==
    /\ clock = 0
    /\ pc = [p \in Procs |-> IF p = "fg" THEN "main" ELSE "idle"]
    /\ \E l \in Labels, n \in 0..MaxThen, dt \in BOOLEAN :
          args = [p \in Procs |-> [label |-> l, cmd |-> MainCmd,
                                   then |-> ThenCmds(n), detach |-> dt]]
    /\ env = [p \in Procs |-> None]
    /\ run_dir = [p \in Procs |-> None]
    /\ state = [p \in Procs |-> NoState]
    /\ loop = [p \in Procs |-> [then_rcs |-> <<>>, i |-> 1]]
    /\ wj = [p \in Procs |-> NoWrite]
    /\ exit = [p \in Procs |-> [code |-> None, out |-> None]]
    /\ fs = <<>>
    /\ commits = <<>>
    /\ cmdlog = <<>>
    /\ rd = RdIdle

Next ==
    \/ \E p \in Procs : Allocate(p)
    \/ \E p \in Procs : Create(p)
    \/ \E p \in Procs : Spawn(p)
    \/ \E p \in Procs : WriteDetached(p)
    \/ \E p \in Procs : PrintRunId(p)
    \/ \E p \in Procs : SetRunning(p)
    \/ \E p \in Procs : RunMain(p)
    \/ \E p \in Procs, rc \in 0..MaxRc : MainDone(p, rc)
    \/ \E p \in Procs : RunThen(p)
    \/ \E p \in Procs, rc \in 0..MaxRc : ThenDone(p, rc)
    \/ \E p \in Procs : Complete(p)
    \/ \E p \in Procs : Return(p)
    \/ \E p \in Procs : WJ_WritePart(p)
    \/ \E p \in Procs : WJ_WriteRest(p)
    \/ \E p \in Procs : WJ_Replace(p)
    \/ \E p \in Procs : Kill(p)
    \/ Tick
    \/ \E latest \in BOOLEAN, run_id \in RunIds \cup {None} : R_Resolve(latest, run_id)
    \/ R_IsFile
    \/ \E json \in BOOLEAN : R_Read(json)

Spec == Init /\ [][Next]_vars

\* ------------------------------------------------------------------ claims
\* The process that runs the commands of the invocation.
Runner == IF args["fg"].detach THEN "bg" ELSE "fg"

\* The run directory of the invocation.
TheDir == run_dir["fg"]

\* The record a complete state.json holds.
Persisted(d) == loads(fs[d][StateJson])
Readable(d) == IsFile(d, StateJson) /\ Parses(fs[d][StateJson])

\* Every record that was ever renamed onto, or is now held by, a state.json.
AllPersisted ==
    {commits[k].obj : k \in 1..Len(commits)}
        \cup {Persisted(d) : d \in {e \in DOMAIN fs : Readable(e)}}

\* The follow-up exit codes a record holds.
Recorded(o) == IF o.then_rcs = None THEN <<>> ELSE o.then_rcs[1]

StatusRank(st) == IF st = "created" THEN 1 ELSE IF st = "running" THEN 2 ELSE 3
Terminal(st) == st \in {"completed", "failed"}

\* C1: over one logical invocation the status persisted in state.json only
\* moves forward, created -> running -> (completed | failed): each record
\* renamed onto state.json has a status equal to or later than every earlier
\* one, and after a completed or failed record the status never differs.
C1_StatusMonotonic ==
    \A j \in 1..Len(commits) : \A k \in 1..j :
        /\ StatusRank(commits[k].obj.status) <= StatusRank(commits[j].obj.status)
        /\ Terminal(commits[k].obj.status) =>
               commits[j].obj.status = commits[k].obj.status

C1_Witness ==
    /\ args["fg"].detach
    /\ Len(commits) = 4
    /\ commits[1].by = "fg" /\ commits[2].by = "bg"
    /\ commits[3].obj.status = "running"
    /\ commits[4].obj.status = "failed"

\* C2: the follow-ups run in declared order, one at a time, each started
\* only after the command before it (the main command first) has exited
\* with 0; when follow-up n exits with c # 0 nothing is started after it
\* and the run ends failed with error 'follow-up failed at step n rc=c' and
\* exactly the n exit codes of follow-ups 1..n recorded.
C2_FollowupsInOrder ==
    /\ \A k \in 1..Len(cmdlog) :
          /\ k - 1 <= Len(args["fg"].then)
          /\ cmdlog[k].cmd = (IF k = 1 THEN args["fg"].cmd ELSE args["fg"].then[k - 1])
          /\ cmdlog[k].by = Runner
          /\ k < Len(cmdlog) => cmdlog[k].rc = Some(0)
    /\ LET n == Len(cmdlog) - 1 IN
       (n >= 1 /\ cmdlog[n + 1].rc \notin {None, Some(0)} /\ pc[Runner] = "done") =>
           /\ Readable(TheDir)
           /\ Persisted(TheDir).status = "failed"
           /\ Persisted(TheDir).error = Some(ThenError(n, cmdlog[n + 1].rc[1]))
           /\ Persisted(TheDir).then_rcs = Some([j \in 1..n |-> cmdlog[j + 1].rc[1]])

C2_Witness ==
    /\ pc[Runner] = "done"
    /\ Len(args["fg"].then) = MaxThen
    /\ Len(cmdlog) = 2
    /\ cmdlog[2].rc = Some(MaxRc)

\* C3: when the main command exits with c # 0 no follow-up is ever
\* started, whatever the number of declared follow-ups, and the run ends
\* with state.json holding status failed, main exit code c, error
\* 'main command failed with rc=c' and no follow-up exit codes.
C3_MainFailureStops ==
    (cmdlog # <<>> /\ cmdlog[1].rc \notin {None, Some(0)}) =>
        /\ Len(cmdlog) = 1
        /\ pc[Runner] = "done" =>
              /\ Readable(TheDir)
              /\ Persisted(TheDir).status = "failed"
              /\ Persisted(TheDir).main_rc = cmdlog[1].rc
              /\ Persisted(TheDir).error = Some(MainError(cmdlog[1].rc[1]))
              /\ Persisted(TheDir).then_rcs = None

C3_Witness ==
    /\ pc[Runner] = "done"
    /\ Len(args["fg"].then) = MaxThen
    /\ cmdlog # <<>>
    /\ cmdlog[1].rc = Some(MaxRc)

\* C4: in every state.json ever persisted, status is completed if and only
\* if the main exit code recorded is 0, every follow-up exit code recorded
\* is 0 and as many follow-up exit codes are recorded as follow-ups declared.
CompletedShape(o) ==
    /\ o.main_rc = Some(0)
    /\ \A j \in 1..Len(Recorded(o)) : Recorded(o)[j] = 0
    /\ Len(Recorded(o)) = Len(o.then_cmds)

C4_CompletedIff ==
    \A o \in AllPersisted : (o.status = "completed") <=> CompletedShape(o)

C4_Witness ==
    /\ Readable(TheDir)
    /\ Persisted(TheDir).status = "completed"
    /\ Len(Persisted(TheDir).then_cmds) = MaxThen
    /\ Len(Recorded(Persisted(TheDir))) = MaxThen
    /\ \E k \in 1..Len(commits) : commits[k].obj.status = "running"

\* C5: in every state.json ever persisted, status is failed if and only if
\* the error message is set, and a failed record has exactly one of: a
\* nonzero main exit code, or main exit code 0 and a nonzero last follow-up
\* exit code; what a reader printed shows failed exactly with an error.
MainNonzero(o) == o.main_rc # None /\ o.main_rc[1] # 0
LastThenNonzero(o) ==
    /\ o.main_rc = Some(0)
    /\ Recorded(o) # <<>>
    /\ Recorded(o)[Len(Recorded(o))] # 0

C5_FailedIffError ==
    /\ \A o \in AllPersisted :
          /\ (o.status = "failed") <=> (o.error # None)
          /\ o.status = "failed" => (MainNonzero(o) # LastThenNonzero(o))
    /\ (rd.pc = "done" /\ rd.code = Some(0)) =>
          ((rd.out[1].status = "failed") <=> (rd.out[1].error # None))

C5_Witness ==
    /\ rd.pc = "done" /\ rd.code = Some(0)
    /\ rd.out[1].status = "failed"
    /\ Readable(TheDir) /\ LastThenNonzero(Persisted(TheDir))

\* C6: when follow-up k+1 starts executing, state.json already records main
\* exit code 0 and the exit codes of follow-ups 1..k, so that killing the
\* orchestrator during follow-up k+1 leaves exactly that record.
C6_PersistedAfterEachCommand ==
    LET n == Len(cmdlog) IN
    (n >= 2 /\ cmdlog[n].rc = None) =>
        /\ Readable(TheDir)
        /\ Persisted(TheDir).main_rc = Some(0)
        /\ Recorded(Persisted(TheDir)) = [j \in 1..(n - 2) |-> cmdlog[j + 1].rc[1]]

\* The record last renamed onto the state.json of directory d, if any.
LastCommit(d) ==
    LET ks == {k \in 1..Len(commits) : commits[k].dir = d} IN
    IF ks = {} THEN None
    ELSE Some(commits[CHOOSE k \in ks : \A j \in ks : j <= k].obj)

\* C7: a reader running beside the orchestrator reads, at any point between
\* two steps of write_json, the complete record last committed: it reports
\* state.json missing only before the first commit, and what it parses and
\* prints is the last committed record, never a partial text.
C7_ReaderSeesCommitted ==
    [][/\ (rd.pc = "L67" /\ rd'.pc = "done") => LastCommit(rd.run_dir) = None
       /\ (rd.pc = "L72" /\ rd'.pc # "L72") =>
             /\ rd'.pc = "done"
             /\ LastCommit(rd.run_dir) # None
             /\ rd'.out[1] \in {LastCommit(rd.run_dir)[1],
                                Summary(rd.run_dir, LastCommit(rd.run_dir)[1])}]_vars

C7_Witness ==
    /\ rd.pc = "L72"
    /\ \E p \in Procs :
          /\ pc[p] = "wj_flush"
          /\ wj[p].name = StateJson
          /\ wj[p].dir = rd.run_dir
          /\ wj[p].obj.status = "running"
          /\ fs[rd.run_dir][TmpOf(StateJson)] = PartOf(wj[p].text)

\* The process that owns the run has been killed: the worker, or the
\* foreground process before it spawned one.
OwnerKilled == pc["bg"] = "killed" \/ (pc["fg"] = "killed" /\ pc["bg"] = "idle")

\* The state.json of every run directory, if there.
StateFiles ==
    [d \in DOMAIN fs |-> IF StateJson \in DOMAIN fs[d] THEN Some(fs[d][StateJson]) ELSE None]

Consistent(o) ==
    /\ (o.status = "completed") <=> CompletedShape(o)
    /\ (o.status = "failed") <=> (o.error # None)
    /\ o.status = "failed" => (MainNonzero(o) # LastThenNonzero(o))

\* C8: once the owning process is killed, at whatever step, state.json
\* holds exactly the record of the last completed rename (and is absent if
\* there was none), that record is consistent in status, exit codes and
\* error, and state.json never changes again.
C8_KillLeavesLastCommit ==
    /\ [](OwnerKilled =>
            \A d \in DOMAIN fs :
                IF LastCommit(d) = None THEN ~IsFile(d, StateJson)
                ELSE /\ IsFile(d, StateJson)
                     /\ fs[d][StateJson] = dumps(LastCommit(d)[1])
                     /\ Consistent(LastCommit(d)[1]))
    /\ [][OwnerKilled => StateFiles' = StateFiles]_vars

C8_Witness ==
    /\ pc[Runner] = "killed"
    /\ wj[Runner].name = StateJson
    /\ Terminal(wj[Runner].obj.status)
    /\ IsFile(TheDir, TmpOf(StateJson))
    /\ fs[TheDir][TmpOf(StateJson)] = wj[Runner].text
    /\ Readable(TheDir)
    /\ Persisted(TheDir).status = "running"

\* C9: a --detach invocation yields one run directory and one Run record:
\* the worker takes the directory the foreground allocated, every write to a
\* state.json goes to that directory, and the run_id the foreground prints
\* names it.
C9_OneRunDirectory ==
    args["fg"].detach =>
        /\ Cardinality(DOMAIN fs) <= 1
        /\ run_dir["bg"] \in {None, run_dir["fg"]}
        /\ \A k \in 1..Len(commits) :
              /\ commits[k].dir = run_dir["fg"]
              /\ commits[k].obj.run_id = run_dir["fg"]
        /\ exit["fg"].out # None => exit["fg"].out = Some(run_dir["fg"])

C9_Witness ==
    /\ args["fg"].detach
    /\ exit["fg"].out # None
    /\ \E k \in 1..Len(commits) :
          /\ commits[k].by = "bg"
          /\ commits[k].obj.created_at > commits[1].obj.created_at
          /\ Terminal(commits[k].obj.status)

\* C10: every record the worker writes keeps run_id, label, workspace,
\* created_at, main_cmd and then_cmds as the foreground wrote them at creation.
Identity(o) == <<o.run_id, o.label, o.workspace, o.created_at, o.main_cmd, o.then_cmds>>

C10_WorkerKeepsCreationRecord ==
    \A k \in 1..Len(commits) :
        commits[k].by = "bg" => Identity(commits[k].obj) = Identity(commits[1].obj)

\* C11: a run's state.json has one writer at a time: in a detached
\* invocation the foreground finishes its writes to state.json before the
\* worker exists and makes none afterwards, so the two never are inside a
\* write of state.json together and the renames are totally ordered, all of
\* the foreground's before all of the worker's.
C11_SingleWriter ==
    /\ ~(wj["fg"].name = StateJson /\ wj["bg"].name = StateJson)
    /\ pc["bg"] # "idle" =>
          /\ wj["fg"].name # StateJson
          /\ \E k \in 1..Len(commits) : commits[k].by = "fg"
    /\ \A j \in 1..Len(commits) : \A k \in 1..j :
          commits[k].by = "bg" => commits[j].by = "bg"

C11_Witness ==
    /\ wj["fg"].name = DetachedJson
    /\ wj["bg"].name = StateJson
    /\ pc["fg"] = "wj_flush" /\ pc["bg"] = "wj_flush"
    /\ \E k \in 1..Len(commits) : commits[k].by = "bg"

\* ---------------------------------------------- nested invocation (SpecNested)
\* The main or follow-up command that p is running is itself an orchestrate
\* invocation, "sub".  run_shell's Popen (lines 99-105) passes no env, so the
\* command, and sub with it, inherits p's environment, LONGRUN_RUN_DIR included.
\* The command runs sub in the foreground: it exits after sub has.
ProcsNested == {"fg", "bg", "sub"}

StartNested(p, l) ==
    /\ pc[p] \in {"main_wait", "then_wait"}
    /\ pc["sub"] = "idle"
    /\ pc' = [pc EXCEPT !["sub"] = "main"]
    /\ env' = [env EXCEPT !["sub"] = env[p]]
    /\ args' = [args EXCEPT !["sub"] = [label |-> l, cmd |-> MainCmd,
                                        then |-> <<>>, detach |-> FALSE]]
    /\ UNCHANGED <<clock, run_dir, state, loop, wj, exit, fs, commits, cmdlog, rd>>

\* p's command is not waiting for a nested invocation.
NestedOver(p) == p = "sub" \/ ~Alive("sub")

InitNested ==
    /\ clock = 0
    /\ pc = [p \in ProcsNested |-> IF p = "fg" THEN "main" ELSE "idle"]
    /\ \E l \in Labels, n \in 0..MaxThen, dt \in BOOLEAN :
          args = [p \in ProcsNested |-> [label |-> l, cmd |-> MainCmd,
                                         then |-> ThenCmds(n), detach |-> dt]]
    /\ env = [p \in ProcsNested |-> None]
    /\ run_dir = [p \in ProcsNested |-> None]
    /\ state = [p \in ProcsNested |-> NoState]
    /\ loop = [p \in ProcsNested |-> [then_rcs |-> <<>>, i |-> 1]]
    /\ wj = [p \in ProcsNested |-> NoWrite]
    /\ exit = [p \in ProcsNested |-> [code |-> None, out |-> None]]
    /\ fs = <<>>
    /\ commits = <<>>
    /\ cmdlog = <<>>
    /\ rd = RdIdle

NextNested ==
    \/ \E p \in ProcsNested : Allocate(p)
    \/ \E p \in ProcsNested : Create(p)
    \/ \E p \in ProcsNested : Spawn(p)
    \/ \E p \in ProcsNested : WriteDetached(p)
    \/ \E p \in ProcsNested : PrintRunId(p)
    \/ \E p \in ProcsNested : SetRunning(p)
    \/ \E p \in ProcsNested : RunMain(p)
    \/ \E p \in ProcsNested, rc \in 0..MaxRc : NestedOver(p) /\ MainDone(p, rc)
    \/ \E p \in ProcsNested : RunThen(p)
    \/ \E p \in ProcsNested, rc \in 0..MaxRc : NestedOver(p) /\ ThenDone(p, rc)
    \/ \E p \in ProcsNested : Complete(p)
    \/ \E p \in ProcsNested : Return(p)
    \/ \E p \in ProcsNested : WJ_WritePart(p)
    \/ \E p \in ProcsNested : WJ_WriteRest(p)
    \/ \E p \in ProcsNested : WJ_Replace(p)
    \/ \E p \in {"fg", "bg"}, l \in Labels : StartNested(p, l)
    \/ Tick

SpecNested == InitNested /\ [][NextNested]_vars

\* The logical invocation a process belongs to.
Invocation(p) == IF p = "sub" THEN "nested" ELSE "outer"

\* C12: two logical invocations in flight together, here a run and an
\* orchestrate invocation started by one of its commands, have run
\* directories of their own, and neither writes the other's state.json.
C12_OwnDirectory ==
    /\ (run_dir["sub"] # None /\ run_dir["fg"] # None) => run_dir["sub"] # run_dir["fg"]
    /\ \A j \in 1..Len(commits) : \A k \in 1..Len(commits) :
          Invocation(commits[j].by) # Invocation(commits[k].by) =>
              commits[j].dir # commits[k].dir

\* C13: an orchestrate process without --detach that runs to its end exits
\* with 0 exactly when the status last persisted is completed and with 1
\* exactly when it is failed; it has no exit code while state.json shows
\* created or running.
C13_ExitMirrorsStatus ==
    \A p \in {"fg", "bg"} :
        (~args[p].detach /\ exit[p].code # None /\ pc[p] = "done") =>
            /\ Readable(run_dir[p])
            /\ Terminal(Persisted(run_dir[p]).status)
            /\ (exit[p].code = Some(0)) <=> (Persisted(run_dir[p]).status = "completed")
            /\ (exit[p].code = Some(1)) <=> (Persisted(run_dir[p]).status = "failed")

C13_Witness ==
    /\ pc["bg"] = "done" /\ exit["bg"].code = Some(1)
    /\ pc["fg"] = "done" /\ exit["fg"].code = Some(0)
    /\ Persisted(TheDir).main_rc = Some(0)

\* ------------------------------------------------- fair scheduling (SpecLive)
\* One step of orchestrate process p; a command that runs terminates.
ProcStep(p) ==
    \/ Allocate(p)
    \/ Create(p)
    \/ Spawn(p)
    \/ WriteDetached(p)
    \/ PrintRunId(p)
    \/ SetRunning(p)
    \/ RunMain(p)
    \/ \E rc \in 0..MaxRc : MainDone(p, rc)
    \/ RunThen(p)
    \/ \E rc \in 0..MaxRc : ThenDone(p, rc)
    \/ Complete(p)
    \/ Return(p)
    \/ WJ_WritePart(p)
    \/ WJ_WriteRest(p)
    \/ WJ_Replace(p)

NextRun ==
    \/ \E p \in Procs : ProcStep(p)
    \/ \E p \in Procs : Kill(p)
    \/ Tick

\* A process that is not killed keeps being scheduled.
SpecLive == Init /\ [][NextRun]_vars /\ \A p \in Procs : WF_vars(ProcStep(p))

\* What main(), lines 185-213, run in one process on record s, records for
\* main exit code mrc and follow-up exit codes trcs.
RECURSIVE FollowUps(_, _, _)
FollowUps(s, trcs, i) ==
    IF i > Len(s.then_cmds) THEN Completed(s, SubSeq(trcs, 1, i - 1))
    ELSE IF trcs[i] # 0 THEN FailThen(s, SubSeq(trcs, 1, i), i, trcs[i])
    ELSE FollowUps(s, trcs, i + 1)

Outcome(s, mrc, trcs) ==
    IF mrc # 0 THEN FailMain(Running(s), mrc)
    ELSE FollowUps([Running(s) EXCEPT !.main_rc = Some(0)], trcs, 1)

Result(o) == <<o.status, o.main_rc, o.then_rcs, o.error>>

\* The exit codes of the main command and of the follow-ups that have run.
MainCode == cmdlog[1].rc[1]
ThenCodes == [j \in 1..(Len(cmdlog) - 1) |-> cmdlog[j + 1].rc[1]]

\* The commands that have run decide the outcome: the main command or the
\* last follow-up failed, or all declared follow-ups have run.
Decided ==
    /\ cmdlog # <<>>
    /\ \A k \in 1..Len(cmdlog) : cmdlog[k].rc # None
    /\ \/ MainCode # 0
       \/ Len(ThenCodes) = Len(args["fg"].then)
       \/ Len(ThenCodes) >= 1 /\ ThenCodes[Len(ThenCodes)] # 0

\* C14: whatever the exit codes of the main command and of the follow-ups,
\* a detached run whose owner is not killed eventually persists a terminal
\* status, and the status, main exit code, follow-up exit codes and error it
\* ends with are those main() run in one process records for these exit
\* codes, as a run without --detach ends with.
C14_DetachedMatchesForeground ==
    /\ [](pc[Runner] = "done" =>
            /\ Decided
            /\ Readable(TheDir)
            /\ Result(Persisted(TheDir)) =
                   Result(Outcome(RunState(TheDir, args["fg"].label, Workspace, 0,
                                           args["fg"].cmd, args["fg"].then),
                                  MainCode, ThenCodes)))
    /\ (args["fg"].detach =>
            <>(OwnerKilled \/ (Readable(TheDir) /\ Terminal(Persisted(TheDir).status))))

C14_Witness ==
    /\ args["fg"].detach
    /\ pc["bg"] = "done"
    /\ Len(cmdlog) = MaxThen + 1
    /\ cmdlog[Len(cmdlog)].rc = Some(MaxRc)
    /\ Persisted(TheDir).status = "failed"

\* The run_id the foreground process of a detached invocation has printed.
Printed == exit["fg"].out

\* C15: in a detached invocation the foreground process starts no command and
\* waits for none; state.json with status created is persisted by it before
\* the worker exists; when it is done it has recorded the worker's pid in
\* detached.json, printed the run_id and exited 0; and a Status query with the
\* printed run_id finds the run directory and its state.json.
C15_ForegroundReturnsAtOnce ==
    /\ [](args["fg"].detach =>
            /\ \A k \in 1..Len(cmdlog) : cmdlog[k].by # "fg"
            /\ pc["fg"] \notin {"main_wait", "then_wait", "ret0", "ret1"}
            /\ pc["bg"] # "idle" =>
                  /\ commits # <<>>
                  /\ commits[1].by = "fg"
                  /\ commits[1].obj.status = "created"
                  /\ Readable(TheDir)
            /\ pc["fg"] = "done" =>
                  /\ exit["fg"].code = Some(0)
                  /\ Printed = Some(TheDir)
                  /\ IsFile(TheDir, DetachedJson)
                  /\ fs[TheDir][DetachedJson] = dumpsPid("bg"))
    /\ [][(args["fg"].detach /\ Printed # None) =>
            /\ R_Resolve(FALSE, Printed[1]) => rd'.pc = "L67"
            /\ (rd.run_dir = Printed[1] /\ R_IsFile) => rd'.pc = "L72"
            /\ (rd.run_dir = Printed[1] /\ \E json \in BOOLEAN : R_Read(json)) =>
                  rd'.code = Some(0)]_vars

\* The foreground process has returned 0 while the main command is still
\* running, a Status query with the printed run_id has been answered, and
\* (second case) the run has failed after the foreground process returned 0.
C15_Witness ==
    /\ args["fg"].detach
    /\ pc["fg"] = "done"
    /\ exit["fg"].code = Some(0)
    /\ rd.pc = "done" /\ rd.run_dir = Printed[1] /\ rd.code = Some(0)
    /\ rd.out[1].status = "running"
    /\ Persisted(TheDir).status = "failed"

\* The follow-up exit codes of a persisted record (none before the loop ends).
ThenRcs(o) == IF o.then_rcs = None THEN <<>> ELSE o.then_rcs[1]

IsPrefix(a, b) == Len(a) <= Len(b) /\ \A i \in 1..Len(a) : a[i] = b[i]

\* C16: in every state.json ever persisted the follow-up exit codes are at
\* most as many as the declared follow-ups, the i-th is the exit code of the
\* i-th declared follow-up, all but the last are 0, and each later record of
\* the run extends the codes of every earlier one.
C16_ThenRcsPrefix ==
    \A k \in 1..Len(commits) :
        LET r == ThenRcs(commits[k].obj) IN
        /\ Len(r) <= Len(args["fg"].then)
        /\ \A i \in 1..Len(r) :
              /\ Len(cmdlog) >= i + 1
              /\ cmdlog[i + 1].cmd = args["fg"].then[i]
              /\ cmdlog[i + 1].rc = Some(r[i])
              /\ i < Len(r) => r[i] = 0
        /\ \A j \in 1..k : IsPrefix(ThenRcs(commits[j].obj), r)

\* A record with two follow-up codes, the last nonzero, has been persisted.
C16_Witness ==
    \E k \in 1..Len(commits) :
        /\ commits[k].obj.then_rcs = Some(<<0, MaxRc>>)
        /\ Persisted(commits[k].dir).then_rcs = Some(<<0, MaxRc>>)

\* ------------------------------------- two invocations and Status (SpecStatus)
\* Two invocations of orchestrate.py by the caller under one runs root, each
\* with a label of its own choice, without --detach and without --then; the
\* caller starts "snd" when "fg" has returned.
ProcsStatus == {"fg", "snd"}
LabelsStatus == {"job", "zeta"}
RunIdsStatus == {RunId(l, t) : l \in LabelsStatus, t \in 0..MaxClock}

\* The state.json of run directory d is cut short by something outside the
\* program; status.py then reads a text that is no JSON document (line 72).
Damage(d) ==
    /\ IsFile(d, StateJson)
    /\ Parses(fs[d][StateJson])
    /\ fs' = PutFile(fs, d, StateJson, PartOf(fs[d][StateJson]))
    /\ UNCHANGED <<clock, pc, args, env, run_dir, state, loop, wj, exit, commits, cmdlog, rd>>

\* The caller starts the second invocation (line 217).
InvokeSecond ==
    /\ pc["fg"] = "done"
    /\ pc["snd"] = "idle"
    /\ pc' = [pc EXCEPT !["snd"] = "main"]
    /\ UNCHANGED <<clock, args, env, run_dir, state, loop, wj, exit, fs, commits, cmdlog, rd>>

\* Both invocations are given their arguments; `second` is where "snd" stands.
InitTwo(second) ==
    /\ clock = 0
    /\ pc = [p \in ProcsStatus |-> IF p = "fg" THEN "main" ELSE second]
    /\ \E l \in [ProcsStatus -> LabelsStatus] :
          args = [p \in ProcsStatus |-> [label |-> l[p], cmd |-> MainCmd,
                                         then |-> <<>>, detach |-> FALSE]]
    /\ env = [p \in ProcsStatus |-> None]
    /\ run_dir = [p \in ProcsStatus |-> None]
    /\ state = [p \in ProcsStatus |-> NoState]
    /\ loop = [p \in ProcsStatus |-> [then_rcs |-> <<>>, i |-> 1]]
    /\ wj = [p \in ProcsStatus |-> NoWrite]
    /\ exit = [p \in ProcsStatus |-> [code |-> None, out |-> None]]
    /\ fs = <<>>
    /\ commits = <<>>
    /\ cmdlog = <<>>
    /\ rd = RdIdle

InitStatus == InitTwo("idle")

NextStatus ==
    \/ InvokeSecond
    \/ \E p \in ProcsStatus : Allocate(p)
    \/ \E p \in ProcsStatus : Create(p)
    \/ \E p \in ProcsStatus : SetRunning(p)
    \/ \E p \in ProcsStatus : RunMain(p)
    \/ \E p \in ProcsStatus, rc \in 0..MaxRc : MainDone(p, rc)
    \/ \E p \in ProcsStatus : Complete(p)
    \/ \E p \in ProcsStatus : Return(p)
    \/ \E p \in ProcsStatus : WJ_WritePart(p)
    \/ \E p \in ProcsStatus : WJ_WriteRest(p)
    \/ \E p \in ProcsStatus : WJ_Replace(p)
    \/ Tick
    \/ Damage(TheDir)
    \/ \E latest \in BOOLEAN, run_id \in RunIdsStatus \cup {None} : R_Resolve(latest, run_id)
    \/ R_IsFile
    \/ \E json \in BOOLEAN : R_Read(json)

SpecStatus == InitStatus /\ [][NextStatus]_vars

\* ------------------------------------- two concurrent invocations (SpecAlloc)
\* Both invocations are started together and run side by side.
InitAlloc == InitTwo("main")

NextAlloc ==
    \/ \E p \in ProcsStatus : Allocate(p)
    \/ \E p \in ProcsStatus : Create(p)
    \/ \E p \in ProcsStatus : SetRunning(p)
    \/ \E p \in ProcsStatus : RunMain(p)
    \/ \E p \in ProcsStatus, rc \in 0..MaxRc : MainDone(p, rc)
    \/ \E p \in ProcsStatus : Complete(p)
    \/ \E p \in ProcsStatus : Return(p)
    \/ \E p \in ProcsStatus : WJ_WritePart(p)
    \/ \E p \in ProcsStatus : WJ_WriteRest(p)
    \/ \E p \in ProcsStatus : WJ_Replace(p)
    \/ Tick

SpecAlloc == InitAlloc /\ [][NextAlloc]_vars

\* C17: an invocation whose directory <label>_<timestamp> already exists
\* fails in make_run_dir: it gets no directory, exits with a fault, writes no
\* file, and its failing step leaves every directory and file as it was; two
\* invocations that got a directory got different ones, and each writes
\* state.json only into its own.
C17_AllocationConflictFatal ==
    /\ [](/\ \A p \in ProcsStatus : \A q \in ProcsStatus :
                (p # q /\ run_dir[p] # None /\ run_dir[q] # None) =>
                    run_dir[p] # run_dir[q]
          /\ \A p \in ProcsStatus :
                pc[p] = "crashed" =>
                    /\ run_dir[p] = None
                    /\ exit[p].code = Some(1)
                    /\ wj[p] = NoWrite
                    /\ \A k \in 1..Len(commits) : commits[k].by # p
          /\ \A k \in 1..Len(commits) : commits[k].dir = run_dir[commits[k].by])
    /\ [][\A p \in ProcsStatus :
             (Allocate(p) /\ RunId(args[p].label, now_tag) \in DOMAIN fs) =>
                 (pc'[p] = "crashed" /\ fs' = fs)]_vars

\* The second invocation has failed on the directory of the first, which has
\* gone on to complete in it.
C17_Witness ==
    /\ pc["snd"] = "crashed"
    /\ args["snd"].label = args["fg"].label
    /\ pc["fg"] = "done"
    /\ IsFile(TheDir, StateJson)
    /\ loads(fs[TheDir][StateJson]).status = "completed"

\* The 'not found' messages of the Status reporter.
NoRunsFound == Some(<<"(no runs found)">>)
MissingState(d) == Some(<<"(missing state.json in ", d, ")">>)

\* C18: when the state.json of the resolved run directory does not parse,
\* the Status reporter ends normally with exit code 1 and a 'not found'
\* message.
C18_CorruptReportedNotFound ==
    [][\A json \in BOOLEAN :
          (R_Read(json) /\ ~Parses(fs[rd.run_dir][StateJson])) =>
              /\ rd'.pc = "done"
              /\ rd'.code = Some(1)
              /\ rd'.out \in {NoRunsFound, MissingState(rd.run_dir)}]_vars

\* C19: the Status reporter ends normally with exit code 1 and a 'not found'
\* message, and leaves the disk as it is, when --run-id names no directory,
\* when --latest finds no run directory, and when the resolved directory has
\* no state.json.
C19_NotFoundExitsOne ==
    [][/\ \A latest \in BOOLEAN : \A run_id \in RunIdsStatus :
             (/\ R_Resolve(latest, run_id)
              /\ IF latest THEN DOMAIN fs = {} ELSE run_id \notin DOMAIN fs) =>
                 /\ rd' = [rd EXCEPT !.pc = "done", !.code = Some(1), !.out = NoRunsFound]
                 /\ fs' = fs
       /\ (R_IsFile /\ ~IsFile(rd.run_dir, StateJson)) =>
             /\ rd' = [rd EXCEPT !.pc = "done", !.code = Some(1),
                                 !.out = MissingState(rd.run_dir)]
             /\ fs' = fs]_vars

\* The reporter has answered for a run directory that has no state.json yet,
\* while another run exists.
C19_Witness ==
    /\ rd.pc = "done"
    /\ rd.code = Some(1)
    /\ rd.run_dir # None
    /\ rd.out = MissingState(rd.run_dir)
    /\ \E d \in DOMAIN fs : d # rd.run_dir /\ IsFile(d, StateJson)

\* No two run directories carry the same timestamp.
DistinctStamps == \A d \in DOMAIN fs : \A e \in DOMAIN fs : d # e => d[2] # e[2]

\* C20: when the runs under the root were created at strictly increasing
\* timestamps, --latest resolves to the run with the greatest timestamp.
C20_LatestIsNewest ==
    [][(R_Resolve(TRUE, None) /\ DOMAIN fs # {} /\ DistinctStamps) =>
          /\ rd'.pc = "L67"
          /\ \A e \in DOMAIN fs : e[2] <= rd'.run_dir[2]]_vars

\* C21: the Status program given neither or both of --run-id and --latest
\* reports argument misuse, exit code 2, and resolves no run; given exactly
\* one it does not report misuse.
C21_ExactlyOneSelector ==
    [][\A latest \in BOOLEAN : \A run_id \in RunIdsStatus \cup {None} :
          R_Resolve(latest, run_id) =>
              IF latest <=> (run_id # None)
              THEN rd'.pc = "done" /\ rd'.code = Some(2) /\ rd'.run_dir = None
              ELSE rd'.code # Some(2)]_vars

\* C22: while a command of the run is executing, the run's state.json holds a
\* record with status running; hence running was persisted before the main
\* command was started and no terminal status is persisted while a command
\* still runs.
C22_RunningWhileExecuting ==
    /\ \A k \in 1..Len(cmdlog) :
          cmdlog[k].rc = None =>
              /\ Readable(run_dir[cmdlog[k].by])
              /\ Persisted(run_dir[cmdlog[k].by]).status = "running"
    /\ cmdlog # <<>> =>
          \E j \in 1..Len(commits) : commits[j].obj.status = "running"
    /\ \A j \in 1..Len(commits) :
          Terminal(commits[j].obj.status) =>
              /\ cmdlog # <<>>
              /\ \A k \in 1..Len(cmdlog) : cmdlog[k].rc # None

\* The last declared follow-up of a detached run is executing.
C22_Witness ==
    /\ args["fg"].detach
    /\ Len(cmdlog) = MaxThen + 1
    /\ cmdlog[Len(cmdlog)].rc = None
    /\ pc["bg"] = "then_wait"
    /\ Persisted(TheDir).status = "running"

\* C23: in a run directory, once a record with status running, completed or
\* failed has been persisted, no record with status created is persisted any
\* more: an invocation given the directory through LONGRUN_RUN_DIR does not
\* recreate the record.
C23_ReattachOnlyToCreated ==
    \A j \in 1..Len(commits) : \A k \in j..Len(commits) :
        (commits[j].dir = commits[k].dir /\ commits[j].obj.status # "created") =>
            commits[k].obj.status # "created"

====
